---- MODULE Spec2Model ----
(***************************************************************************)
(* A model of pymagetable.py: the label generator `permutations`, the      *)
(* run-length compressor `compressed_matrix`, the frequency filter         *)
(* `values_sorted_by_frequency` and the renderer class `ImageTable`.       *)
(*                                                                         *)
(* Text is modelled as TLC strings built with \o where the program builds  *)
(* text with ''.join / %-formatting; the output sink is the sequence of    *)
(* markup tokens written so far, one write appending one or more tokens.   *)
(***************************************************************************)
EXTENDS Integers, Sequences, FiniteSets, TLC

VARIABLES
    values,        \* permutations: the alphabet argument (a sequence of symbols)
    chars,         \* permutations: the digit indices, least significant first
    outs,          \* permutations: the values yielded so far, in order
    list,          \* values_sorted_by_frequency: the argument
    result,        \* values_sorted_by_frequency: [returned, value]
    matrix,        \* ImageTable.__init__: the pixel_matrix argument
    pixel_matrix,  \* ImageTable: self.pixel_matrix (the compressed grid)
    cache,         \* ImageTable: self._color_classes ([set, items])
    fout,          \* the output sink: the tokens written so far
    pc,            \* ImageTable: where the running call stands
    caller,        \* ImageTable: the method the user called
    idx,           \* ImageTable: the position of the running for-loop
    calls          \* ImageTable: the number of calls made by the user

vars == <<values, chars, outs, list, result, matrix, pixel_matrix, cache, fout,
          pc, caller, idx, calls>>

permVars == <<values, chars, outs>>
freqVars == <<list, result>>
tableVars == <<matrix, pixel_matrix, cache, fout, pc, caller, idx, calls>>

----------------------------------------------------------------------------
(* Bounds of the model.                                                    *)

\* the number of values taken from one permutations generator
MaxYield == 704
\* the length of the digit buffer of a permutations generator
MaxDigits == 8
\* the length of the list given to values_sorted_by_frequency
MaxList == 5
\* the height of the grid given to ImageTable
MaxH == 3
\* the width of a row of the grid given to ImageTable
MaxW == 3
\* the number of cells of the grid given to ImageTable
MaxCells == 4
\* the number of styles / main / html calls made on one ImageTable
MaxCalls == 2

----------------------------------------------------------------------------
(* Values.                                                                 *)

\* RGB triples as image.convert('RGB') gives them (8-bit components)
Red == <<255, 0, 0>>
Teal == <<0, 128, 255>>
Olive == <<10, 9, 0>>
Colors == {Red, Teal, Olive}

\* the alphabet ImageTable.color_classes passes to permutations
Alphabet == <<"a", "b", "c", "d", "e", "f", "g", "h", "i", "j", "k", "l", "m",
              "n", "o", "p", "q", "r", "s", "t", "u", "v", "w", "x", "y", "z">>

\* the alphabets the generator is run on: prefixes of a..z
AlphabetSizes == {1, 2, 3, Len(Alphabet)}

\* a fourth colour for values_sorted_by_frequency, whose green equals Red's
Navy == <<0, 0, 128>>

NotReturned == [returned |-> FALSE, value |-> <<>>]

RECURSIVE SeqsUpTo(_, _)
\* all sequences over S of length 0..n
SeqsUpTo(S, n) ==
    IF n = 0 THEN {<<>>}
    ELSE LET shorter == SeqsUpTo(S, n - 1)
         IN  shorter \cup {Append(s, x) : s \in {t \in shorter : Len(t) = n - 1}, x \in S}

----------------------------------------------------------------------------
(* Text formatting.                                                        *)

HexDigit == <<"0", "1", "2", "3", "4", "5", "6", "7", "8", "9",
              "a", "b", "c", "d", "e", "f">>

RECURSIVE FormatHex(_)
\* '%x' % n
FormatHex(n) ==
    IF n < 16 THEN HexDigit[n + 1]
    ELSE FormatHex(n \div 16) \o HexDigit[(n % 16) + 1]

\* '%02x' % n : zero-padded to two digits, longer when n needs more
Format02x(n) == IF n < 16 THEN "0" \o FormatHex(n) ELSE FormatHex(n)

\* '#%02x%02x%02x' % color
FormatColor(color) ==
    "#" \o Format02x(color[1]) \o Format02x(color[2]) \o Format02x(color[3])

RECURSIVE FormatInt(_)
\* '%d' % n (n >= 0)
FormatInt(n) ==
    IF n < 10 THEN HexDigit[n + 1]
    ELSE FormatInt(n \div 10) \o HexDigit[(n % 10) + 1]

----------------------------------------------------------------------------
(* permutations(values)                                                    *)

RECURSIVE JoinReversed(_, _)
\* ''.join(values[c] for c in reversed(chars))
JoinReversed(vals, cs) ==
    IF cs = <<>> THEN ""
    ELSE JoinReversed(vals, Tail(cs)) \o vals[Head(cs) + 1]

RECURSIVE AdvanceNoReset(_, _, _)
\* the for loop with the reset `chars[i] = 0` dropped
AdvanceNoReset(cs, i, length) ==
    IF i > Len(cs) THEN Append(cs, 0)
    ELSE IF cs[i] >= length - 1
         THEN AdvanceNoReset(cs, i + 1, length)
         ELSE [cs EXCEPT ![i] = @ + 1]

RECURSIVE Advance(_, _, _)
\* the for ... else of the generator body, from position i on
Advance(cs, i, length) ==
    IF i > Len(cs) THEN Append(cs, 0)
    ELSE IF cs[i] >= length - 1
         THEN Advance([cs EXCEPT ![i] = 0], i + 1, length)
         ELSE [cs EXCEPT ![i] = @ + 1]

RECURSIVE permutations(_, _, _)
\* the first k values of the generator started at digit buffer cs
permutations(vals, cs, k) ==
    IF k = 0 THEN <<>>
    ELSE <<JoinReversed(vals, cs)>> \o permutations(vals, Advance(cs, 1, Len(vals)), k - 1)

\* one next() on the generator: yield, then run on to the next yield
PermNext ==
    /\ Len(outs) < MaxYield
    /\ Len(chars) <= MaxDigits
    /\ outs' = Append(outs, JoinReversed(values, chars))
    /\ chars' = Advance(chars, 1, Len(values))
    /\ UNCHANGED <<values, freqVars, tableVars>>

----------------------------------------------------------------------------
(* values_sorted_by_frequency(list)                                        *)

RECURSIVE Count(_, _)
\* counter[e] after the counting loop
Count(l, e) ==
    IF l = <<>> THEN 0
    ELSE (IF Head(l) = e THEN 1 ELSE 0) + Count(Tail(l), e)

RECURSIVE CounterKeys(_, _)
\* the keys of counter in insertion order: first occurrence in the scan
CounterKeys(l, seen) ==
    IF l = <<>> THEN seen
    ELSE IF \E i \in 1..Len(seen) : seen[i] = Head(l)
         THEN CounterKeys(Tail(l), seen)
         ELSE CounterKeys(Tail(l), Append(seen, Head(l)))

RECURSIVE Filter2(_, _)
\* (e for (e, count) in counter.items() if count >= 2)
Filter2(keys, l) ==
    IF keys = <<>> THEN <<>>
    ELSE IF Count(l, Head(keys)) >= 2
         THEN <<Head(keys)>> \o Filter2(Tail(keys), l)
         ELSE Filter2(Tail(keys), l)

\* operator.itemgetter(1) applied to an element of the generator: the
\* generator yields e, the colour itself, so the key is its second component
ItemGetter1(e) == e[2]

RECURSIVE InsertDesc(_, _)
\* x put behind every element whose key is not smaller (stable, descending)
InsertDesc(sorted, x) ==
    IF sorted = <<>> THEN <<x>>
    ELSE IF ItemGetter1(Head(sorted)) >= ItemGetter1(x)
         THEN <<Head(sorted)>> \o InsertDesc(Tail(sorted), x)
         ELSE <<x>> \o sorted

RECURSIVE SortedReverse(_, _)
\* sorted(s, key=operator.itemgetter(1), reverse=True): stable
SortedReverse(s, acc) ==
    IF s = <<>> THEN acc
    ELSE SortedReverse(Tail(s), InsertDesc(acc, Head(s)))

values_sorted_by_frequency(l) ==
    SortedReverse(Filter2(CounterKeys(l, <<>>), l), <<>>)

FreqCall ==
    /\ ~result.returned
    /\ result' = [returned |-> TRUE, value |-> values_sorted_by_frequency(list)]
    /\ UNCHANGED <<list, permVars, tableVars>>

----------------------------------------------------------------------------
(* compressed_matrix(matrix)                                               *)

RECURSIVE RowLoopNoMerge(_, _, _, _)
\* the cell loop with the comparison `cell == value` always false
RowLoopNoMerge(rest, length, value, new_row) ==
    IF rest = <<>> THEN Append(new_row, <<length, value>>)
    ELSE RowLoopNoMerge(Tail(rest), 1, Head(rest), Append(new_row, <<length, value>>))

RECURSIVE RowLoopNoReset(_, _, _, _)
\* the cell loop without `length = 1` when a run is closed
RowLoopNoReset(rest, length, value, new_row) ==
    IF rest = <<>> THEN Append(new_row, <<length, value>>)
    ELSE IF Head(rest) = value
         THEN RowLoopNoReset(Tail(rest), length + 1, value, new_row)
         ELSE RowLoopNoReset(Tail(rest), length, Head(rest), Append(new_row, <<length, value>>))

RECURSIVE RowLoop(_, _, _, _)
\* `for cell in row[1:]` and the append behind it, with the loop's locals
RowLoop(rest, length, value, new_row) ==
    IF rest = <<>> THEN Append(new_row, <<length, value>>)
    ELSE IF Head(rest) = value
         THEN RowLoop(Tail(rest), length + 1, value, new_row)
         ELSE RowLoop(Tail(rest), 1, Head(rest), Append(new_row, <<length, value>>))

\* the body of `for row in matrix` (row[0] exists: the row is not empty)
CompressedRow(row) == RowLoop(Tail(row), 1, Head(row), <<>>)

\* compressed_matrix on a matrix without an empty row
compressed_matrix(m) == [y \in 1..Len(m) |-> CompressedRow(m[y])]

\* row[0] raises IndexError on an empty row
CompressRaises(m) == \E y \in 1..Len(m) : m[y] = <<>>

----------------------------------------------------------------------------
(* class ImageTable                                                        *)

\* the default of __init__'s parameter c
c == "image"

RECURSIVE Flatten(_)
\* (cell for row in self.pixel_matrix for cell in row)
Flatten(pm) == IF pm = <<>> THEN <<>> ELSE Head(pm) \o Flatten(Tail(pm))

\* cell[1] for every cell, in row-major order
CellColors(pm) == LET cells == Flatten(pm) IN [i \in 1..Len(cells) |-> cells[i][2]]

\* the pixels of the uncompressed grid, in row-major order
PixelColors(m) == Flatten(m)

\* color_classes computed from the pixels instead of the runs
ComputeClassesFromPixels(pm) ==
    LET aliased_colors == values_sorted_by_frequency(PixelColors(matrix))
        classes == permutations(Alphabet, <<0>>, Len(aliased_colors))
    IN  [i \in 1..Len(aliased_colors) |-> <<aliased_colors[i], classes[i]>>]

\* every colour given the first label
ComputeClassesOneLabel(pm) ==
    LET aliased_colors == values_sorted_by_frequency(CellColors(pm))
        classes == permutations(Alphabet, <<0>>, 1)
    IN  [i \in 1..Len(aliased_colors) |-> <<aliased_colors[i], classes[1]>>]

\* the dict built by color_classes, as its items in insertion order
ComputeClasses(pm) ==
    LET aliased_colors == values_sorted_by_frequency(CellColors(pm))
        classes == permutations(Alphabet, <<0>>, Len(aliased_colors))
    IN  [i \in 1..Len(aliased_colors) |-> <<aliased_colors[i], classes[i]>>]

\* the property color_classes: computed when _color_classes is not set
color_classes(ch, pm) ==
    IF ch.set THEN ch ELSE [set |-> TRUE, items |-> ComputeClasses(pm)]

\* `color in d` and `d[color]` on the items of a dict
InDict(items, color) == \E i \in 1..Len(items) : items[i][1] = color
Lookup(items, color) == items[CHOOSE i \in 1..Len(items) : items[i][1] = color][2]

RECURSIVE Sum(_)
Sum(s) == IF s = <<>> THEN 0 ELSE Head(s)[1] + Sum(Tail(s))

\* width() with the last row in place of row 0
WidthOfLastRow(pm) == Sum(pm[Len(pm)])

\* ImageTable.width (pixel_matrix[0] exists)
width(pm) == Sum(pm[1])

\* cellattr with the width test `length >= 1`
CellattrAlwaysWidth(cell, items) ==
    LET length == cell[1]
        color == cell[2]
        classes == IF InDict(items, color) THEN <<Lookup(items, color)>> ELSE <<>>
        styles == (IF InDict(items, color) THEN <<>>
                   ELSE <<[prop |-> "background", val |-> FormatColor(color)]>>)
                  \o (IF length >= 1
                      THEN <<[prop |-> "width", val |-> FormatInt(length) \o "px"]>>
                      ELSE <<>>)
    IN  (IF classes # <<>> THEN <<[name |-> "class", classes |-> classes]>> ELSE <<>>)
        \o (IF styles # <<>> THEN <<[name |-> "style", styles |-> styles]>> ELSE <<>>)

\* ImageTable.cellattr: the attributes of the element, before the joins
cellattr(cell, items) ==
    LET length == cell[1]
        color == cell[2]
        classes == IF InDict(items, color) THEN <<Lookup(items, color)>> ELSE <<>>
        styles == (IF InDict(items, color) THEN <<>>
                   ELSE <<[prop |-> "background", val |-> FormatColor(color)]>>)
                  \o (IF length > 1
                      THEN <<[prop |-> "width", val |-> FormatInt(length) \o "px"]>>
                      ELSE <<>>)
    IN  (IF classes # <<>> THEN <<[name |-> "class", classes |-> classes]>> ELSE <<>>)
        \o (IF styles # <<>> THEN <<[name |-> "style", styles |-> styles]>> ELSE <<>>)

(* The markup tokens.                                                      *)
DocOpen == [t |-> "<html><head>"]
StyleOpen == [t |-> "<style>"]
WidthRule(w) == [t |-> "width_rule", scope |-> c, width |-> FormatInt(w) \o "px"]
BaseRule == [t |-> "base_rule", scope |-> c]
ClassRule(item) ==
    [t |-> "class_rule", scope |-> c, cls |-> item[2], background |-> FormatColor(item[1])]
StyleClose == [t |-> "</style>"]
BodyOpen == [t |-> "<body>"]
POpen == [t |-> "<p>", class |-> c]
Element(attrs) == [t |-> "<a/>", attrs |-> attrs]
PClose == [t |-> "</p>"]
BodyClose == [t |-> "</body>"]
DocClose == [t |-> "</html>"]

\* the user may call a method when none runs
Callable == pc \in {"idle", "raised"} /\ calls < MaxCalls

\* ImageTable(pixel_matrix)
Construct ==
    /\ pc = "new"
    /\ IF CompressRaises(matrix)
       THEN pc' = "init_raised" /\ UNCHANGED pixel_matrix
       ELSE pc' = "idle" /\ pixel_matrix' = compressed_matrix(matrix)
    /\ UNCHANGED <<matrix, cache, fout, caller, idx, calls, permVars, freqVars>>

\* the user calls styles(fout)
CallStyles ==
    /\ Callable
    /\ pc' = "styles"
    /\ caller' = "styles"
    /\ calls' = calls + 1
    /\ UNCHANGED <<matrix, pixel_matrix, cache, fout, idx, permVars, freqVars>>

\* the user calls main(fout)
CallMain ==
    /\ Callable
    /\ pc' = "main"
    /\ caller' = "main"
    /\ calls' = calls + 1
    /\ UNCHANGED <<matrix, pixel_matrix, cache, fout, idx, permVars, freqVars>>

\* the user calls html(fout): its first write, up to the call of styles
CallHtml ==
    /\ Callable
    /\ fout' = fout \o <<DocOpen, StyleOpen>>
    /\ pc' = "styles"
    /\ caller' = "html"
    /\ calls' = calls + 1
    /\ UNCHANGED <<matrix, pixel_matrix, cache, idx, permVars, freqVars>>

\* styles with the two container rules written in the other order
StylesHeadSwapped ==
    /\ pc = "styles"
    /\ IF pixel_matrix = <<>>
       THEN pc' = "raised" /\ UNCHANGED <<fout, cache, idx>>
       ELSE /\ fout' = fout \o <<BaseRule, WidthRule(width(pixel_matrix))>>
            /\ cache' = color_classes(cache, pixel_matrix)
            /\ idx' = 1
            /\ pc' = "styles_rules"
    /\ UNCHANGED <<matrix, pixel_matrix, caller, calls, permVars, freqVars>>

\* styles: the first write (width() raises IndexError on a grid without rows),
\* then color_classes.items() is taken for the loop
StylesHead ==
    /\ pc = "styles"
    /\ IF pixel_matrix = <<>>
       THEN pc' = "raised" /\ UNCHANGED <<fout, cache, idx>>
       ELSE /\ fout' = fout \o <<WidthRule(width(pixel_matrix)), BaseRule>>
            /\ cache' = color_classes(cache, pixel_matrix)
            /\ idx' = 1
            /\ pc' = "styles_rules"
    /\ UNCHANGED <<matrix, pixel_matrix, caller, calls, permVars, freqVars>>

\* styles: one turn of `for (color, cls) in self.color_classes.items()`
StylesRule ==
    /\ pc = "styles_rules"
    /\ idx <= Len(cache.items)
    /\ fout' = Append(fout, ClassRule(cache.items[idx]))
    /\ idx' = idx + 1
    /\ UNCHANGED <<matrix, pixel_matrix, cache, pc, caller, calls, permVars, freqVars>>

\* styles returns, to html or to the user
StylesReturn ==
    /\ pc = "styles_rules"
    /\ idx > Len(cache.items)
    /\ pc' = IF caller = "html" THEN "html_mid" ELSE "idle"
    /\ UNCHANGED <<matrix, pixel_matrix, cache, fout, caller, idx, calls, permVars, freqVars>>

\* html: the write between styles and main
HtmlMid ==
    /\ pc = "html_mid"
    /\ fout' = fout \o <<StyleClose, BodyOpen>>
    /\ pc' = "main"
    /\ UNCHANGED <<matrix, pixel_matrix, cache, caller, idx, calls, permVars, freqVars>>

\* main: the first write
MainHead ==
    /\ pc = "main"
    /\ fout' = Append(fout, POpen)
    /\ idx' = 1
    /\ pc' = "main_cells"
    /\ UNCHANGED <<matrix, pixel_matrix, cache, caller, calls, permVars, freqVars>>

\* main: one turn of the cell loops; cellattr reads color_classes
MainCell ==
    /\ pc = "main_cells"
    /\ idx <= Len(Flatten(pixel_matrix))
    /\ cache' = color_classes(cache, pixel_matrix)
    /\ fout' = Append(fout, Element(cellattr(Flatten(pixel_matrix)[idx], cache'.items)))
    /\ idx' = idx + 1
    /\ UNCHANGED <<matrix, pixel_matrix, pc, caller, calls, permVars, freqVars>>

\* main: the last write, and the return to html or to the user
MainTail ==
    /\ pc = "main_cells"
    /\ idx > Len(Flatten(pixel_matrix))
    /\ fout' = Append(fout, PClose)
    /\ pc' = IF caller = "html" THEN "html_end" ELSE "idle"
    /\ UNCHANGED <<matrix, pixel_matrix, cache, caller, idx, calls, permVars, freqVars>>

\* html: the last write
HtmlEnd ==
    /\ pc = "html_end"
    /\ fout' = fout \o <<BodyClose, DocClose>>
    /\ pc' = "idle"
    /\ UNCHANGED <<matrix, pixel_matrix, cache, caller, idx, calls, permVars, freqVars>>

TableIdle ==
    /\ matrix = <<>>
    /\ pixel_matrix = <<>>
    /\ cache = [set |-> FALSE, items |-> <<>>]
    /\ fout = <<>>
    /\ pc = "unused"
    /\ caller = "none"
    /\ idx = 0
    /\ calls = 0

PermIdle ==
    /\ values = <<>>
    /\ chars = <<>>
    /\ outs = <<>>

FreqIdle ==
    /\ list = <<>>
    /\ result = NotReturned

RECURSIVE Grids(_, _)
\* the grids of at most h rows and at most cells cells, a row of 0..MaxW cells
Grids(h, cells) ==
    IF h = 0 THEN {<<>>}
    ELSE {<<>>} \cup
         UNION {{<<row>> \o g : g \in Grids(h - 1, cells - Len(row))} :
                row \in SeqsUpTo(Colors, IF cells < MaxW THEN cells ELSE MaxW)}

Init ==
    /\ matrix \in Grids(MaxH, MaxCells)
    /\ pixel_matrix = <<>>
    /\ cache = [set |-> FALSE, items |-> <<>>]
    /\ fout = <<>>
    /\ pc = "new"
    /\ caller = "none"
    /\ idx = 0
    /\ calls = 0
    /\ PermIdle
    /\ FreqIdle

Next ==
    \/ Construct
    \/ CallStyles
    \/ CallMain
    \/ CallHtml
    \/ StylesHead
    \/ StylesRule
    \/ StylesReturn
    \/ HtmlMid
    \/ MainHead
    \/ MainCell
    \/ MainTail
    \/ HtmlEnd

Spec == Init /\ [][Next]_vars

----------------------------------------------------------------------------
(* Specifications of the two free functions.                               *)

PermInit ==
    /\ values \in {SubSeq(Alphabet, 1, n) : n \in AlphabetSizes}
    /\ chars = <<0>>
    /\ outs = <<>>
    /\ FreqIdle
    /\ TableIdle

SpecPerm == PermInit /\ [][PermNext]_vars

FreqInit ==
    /\ list \in SeqsUpTo(Colors \cup {Navy}, MaxList)
    /\ result = NotReturned
    /\ PermIdle
    /\ TableIdle

SpecFreq == FreqInit /\ [][FreqCall]_vars

----------------------------------------------------------------------------
(* Vocabulary of the properties.                                           *)

\* the ImageTable exists: __init__ returned
Constructed == pc \notin {"new", "init_raised", "unused"}

\* height >= 1, width >= 1, every row of the same width
IsRectangular(m) ==
    /\ Len(m) >= 1
    /\ Len(m[1]) >= 1
    /\ \A y \in 1..Len(m) : Len(m[y]) = Len(m[1])

NonEmptyRows(m) == \A y \in 1..Len(m) : m[y] # <<>>

RECURSIVE ExpandRow(_)
\* every run (length, colour) written out as `length` copies of the colour
ExpandRow(runs) ==
    IF runs = <<>> THEN <<>>
    ELSE [i \in 1..Head(runs)[1] |-> Head(runs)[2]] \o ExpandRow(Tail(runs))

\* the colour's text as a style sheet writes it, for the colours of the model
ExpectedHex(color) ==
    CASE color = Red -> "#ff0000"
      [] color = Teal -> "#0080ff"
      [] color = Olive -> "#0a0900"
      [] color = Navy -> "#000080"

\* n pixel units as a style sheet writes them
ExpectedPx(n) == <<"1px", "2px", "3px", "4px", "5px", "6px", "7px", "8px", "9px">>[n]

RECURSIVE BijectiveNumeral(_, _)
\* k in the bijective base-Len(vals) numeral system, most significant first
BijectiveNumeral(k, vals) ==
    IF k = 0 THEN ""
    ELSE BijectiveNumeral((k - 1) \div Len(vals), vals) \o vals[((k - 1) % Len(vals)) + 1]

\* the number of elements of l equal to e
Occurrences(l, e) == Cardinality({i \in 1..Len(l) : l[i] = e})

\* the place of e's first occurrence in l
FirstAt(l, e) == CHOOSE i \in 1..Len(l) : l[i] = e /\ \A j \in 1..(i - 1) : l[j] # e

----------------------------------------------------------------------------
(* C1: for every rectangular grid (height >= 1, width >= 1), expanding     *)
(* every run of every compressed row gives back the original grid: the     *)
(* same number of rows and the same cells in every row.                    *)
C1_RoundTrip ==
    (Constructed /\ IsRectangular(matrix)) =>
        /\ Len(pixel_matrix) = Len(matrix)
        /\ \A y \in 1..Len(matrix) : ExpandRow(pixel_matrix[y]) = matrix[y]

\* a rectangular grid of two rows with a merged run and a row of two runs
C1_Witness ==
    /\ Constructed
    /\ IsRectangular(matrix)
    /\ Len(matrix) >= 2
    /\ \E y \in 1..Len(pixel_matrix) : Len(pixel_matrix[y]) >= 2
    /\ \E y \in 1..Len(pixel_matrix) :
           \E i \in 1..Len(pixel_matrix[y]) : pixel_matrix[y][i][1] >= 2

(* C2: for every grid whose rows are all non-empty, no compressed row has  *)
(* two adjacent runs of equal colour, and every run has length >= 1.       *)
C2_Maximal ==
    (Constructed /\ NonEmptyRows(matrix)) =>
        \A y \in 1..Len(pixel_matrix) :
            \A i \in 1..Len(pixel_matrix[y]) :
                /\ pixel_matrix[y][i][1] >= 1
                /\ i < Len(pixel_matrix[y]) =>
                       pixel_matrix[y][i][2] # pixel_matrix[y][i + 1][2]

\* a row of three cells compressed into two runs
C2_Witness ==
    /\ Constructed
    /\ \E y \in 1..Len(matrix) : Len(matrix[y]) = 3 /\ Len(pixel_matrix[y]) = 2

(* C3: the k-th value of permutations(alphabet) is the bijective base-N    *)
(* numeral of k, most significant symbol first; it differs from every      *)
(* earlier value and is no shorter than any of them; over a..z the values  *)
(* 1, 2, 26, 27, 28, 702, 703 are a, b, z, aa, ab, zz, aaa.                *)
C3_BijectiveNumerals ==
    LET n == Len(outs) IN
    (n >= 1) =>
        /\ outs[n] = BijectiveNumeral(n, values)
        /\ \A j \in 1..(n - 1) : outs[j] # outs[n] /\ Len(outs[j]) <= Len(outs[n])
        /\ (values = Alphabet) =>
               /\ (n = 1) => outs[n] = "a"
               /\ (n = 2) => outs[n] = "b"
               /\ (n = 26) => outs[n] = "z"
               /\ (n = 27) => outs[n] = "aa"
               /\ (n = 28) => outs[n] = "ab"
               /\ (n = 702) => outs[n] = "zz"
               /\ (n = 703) => outs[n] = "aaa"

\* the 703rd value over a..z has been yielded
C3_Witness == values = Alphabet /\ Len(outs) = 703 /\ outs[703] = "aaa"

(* C4: values_sorted_by_frequency returns exactly the distinct colours     *)
(* that occur at least 2 times, by descending occurrence count, colours of *)
(* equal count in the order of their first occurrence.                     *)
C4_SortedByCount ==
    result.returned =>
        LET r == result.value IN
        /\ {r[i] : i \in 1..Len(r)} = {e \in Colors \cup {Navy} : Occurrences(list, e) >= 2}
        /\ \A i, j \in 1..Len(r) : i < j =>
               /\ r[i] # r[j]
               /\ \/ Occurrences(list, r[i]) > Occurrences(list, r[j])
                  \/ /\ Occurrences(list, r[i]) = Occurrences(list, r[j])
                     /\ FirstAt(list, r[i]) < FirstAt(list, r[j])

----------------------------------------------------------------------------
(* Reading the sink.                                                       *)

Elements == {i \in 1..Len(fout) : fout[i].t = "<a/>"}

\* the container-open token the element at i was written behind
OpenOf(i) ==
    CHOOSE j \in 1..i : fout[j].t = "<p>" /\ \A k \in (j + 1)..i : fout[k].t = "<a/>"

\* the run the element at i was written for: elements follow the runs in
\* row-major order
RunOf(i) == Flatten(pixel_matrix)[i - OpenOf(i)]

HasAttr(attrs, n) == \E k \in 1..Len(attrs) : attrs[k].name = n

\* the class names of an element
ClassesOf(attrs) ==
    UNION {{attrs[k].classes[m] : m \in 1..Len(attrs[k].classes)} :
           k \in {k \in 1..Len(attrs) : attrs[k].name = "class"}}

\* the inline declarations of an element
DeclsOf(attrs) ==
    UNION {{attrs[k].styles[m] : m \in 1..Len(attrs[k].styles)} :
           k \in {k \in 1..Len(attrs) : attrs[k].name = "style"}}

Backgrounds(attrs) == {d.val : d \in {d \in DeclsOf(attrs) : d.prop = "background"}}
Widths(attrs) == {d.val : d \in {d \in DeclsOf(attrs) : d.prop = "width"}}

\* the number of runs of the compressed grid that have colour col
RunCount(col) ==
    Cardinality({yi \in UNION {{<<y, i>> : i \in 1..Len(pixel_matrix[y])} :
                               y \in 1..Len(pixel_matrix)} :
                 pixel_matrix[yi[1]][yi[2]][2] = col})

\* the style fragments: the places of the container width rules
StyleStarts == {w \in 1..Len(fout) : fout[w].t = "width_rule"}

\* the fragment at w is being written by the running styles call
InProgress(w) == pc = "styles_rules" /\ \A v \in StyleStarts : v <= w

\* the class rules of the style fragment at w
RulesOf(w) ==
    {k \in (w + 2)..Len(fout) : \A m \in (w + 2)..k : fout[m].t = "class_rule"}

\* the completed body fragments: open at j, close at k, elements between
Bodies ==
    {jk \in (1..Len(fout)) \X (1..Len(fout)) :
        /\ jk[1] < jk[2]
        /\ fout[jk[1]].t = "<p>"
        /\ fout[jk[2]].t = "</p>"
        /\ \A m \in (jk[1] + 1)..(jk[2] - 1) : fout[m].t = "<a/>"}

IsPrefix(s, t) == Len(s) <= Len(t) /\ SubSeq(t, 1, Len(s)) = s

----------------------------------------------------------------------------
(* C5: an element rendered for a run (length, colour) carries the colour's *)
(* label as its class and no inline background if the colour is in the     *)
(* colour class map, else an inline background and no class; it carries an *)
(* inline width of `length` px if and only if length > 1; and the class    *)
(* attribute precedes the style attribute when both are present.           *)
C5_CellAttributes ==
    \A i \in Elements :
        LET length == RunOf(i)[1]
            color == RunOf(i)[2]
            attrs == fout[i].attrs
        IN  /\ InDict(cache.items, color) =>
                /\ ClassesOf(attrs) = {Lookup(cache.items, color)}
                /\ Backgrounds(attrs) = {}
            /\ ~InDict(cache.items, color) =>
                /\ ~HasAttr(attrs, "class")
                /\ Backgrounds(attrs) = {ExpectedHex(color)}
            /\ Widths(attrs) = IF length > 1 THEN {ExpectedPx(length)} ELSE {}
            /\ (HasAttr(attrs, "class") /\ HasAttr(attrs, "style")) =>
                   attrs[1].name = "class" /\ attrs[2].name = "style"

\* an element of a run longer than 1 whose colour has a class, and an
\* element of a run of length 1 whose colour has none
C5_Witness ==
    /\ \E i \in Elements :
           RunOf(i)[1] > 1 /\ InDict(cache.items, RunOf(i)[2]) /\ Len(fout[i].attrs) = 2
    /\ \E i \in Elements : RunOf(i)[1] = 1 /\ ~InDict(cache.items, RunOf(i)[2])

(* C6, as claimed: when the compressed rows' run-length sums differ,       *)
(* rendering fails and writes no markup.                                   *)
RowSumsDiffer ==
    /\ Constructed
    /\ NonEmptyRows(matrix)
    /\ \E y \in 1..Len(matrix) : Len(matrix[y]) # Len(matrix[1])

C6_MismatchRejected ==
    RowSumsDiffer => (fout = <<>> /\ ~(pc = "idle" /\ calls > 0))

(* C6, amended: when the rows are non-empty and their widths differ, no    *)
(* call of styles, main or html fails; every container width rule written  *)
(* carries the width of row 0; and every call that returned has written    *)
(* its markup.                                                             *)
C6_MismatchAccepted ==
    RowSumsDiffer =>
        /\ pc # "raised"
        /\ \A w \in StyleStarts : fout[w].width = ExpectedPx(Len(matrix[1]))
        /\ (pc = "idle" /\ calls > 0) =>
               \/ fout[Len(fout)].t \in {"</p>", "</html>"}
               \/ /\ caller = "styles"
                  /\ fout[Len(fout)].t \in {"base_rule", "class_rule"}

\* html has returned on a grid whose last row is wider than row 0
C6_Witness ==
    /\ RowSumsDiffer
    /\ Len(matrix[Len(matrix)]) > Len(matrix[1])
    /\ pc = "idle"
    /\ caller = "html"
    /\ fout[Len(fout)] = DocClose

\* every cell of the rectangular grid has the same colour
Uniform(m) ==
    /\ IsRectangular(m)
    /\ \A y \in 1..Len(m) : \A x \in 1..Len(m[y]) : m[y][x] = m[1][1]

\* one run per row, of the grid's width, and `height` elements per body
UniformShape ==
    /\ \A y \in 1..Len(pixel_matrix) :
           pixel_matrix[y] = <<<<Len(matrix[1]), matrix[1][1]>>>>
    /\ \A jk \in Bodies : jk[2] - jk[1] - 1 = Len(matrix)
    /\ \A i \in Elements :
           (ClassesOf(fout[i].attrs) = {}) # (Backgrounds(fout[i].attrs) = {})

(* C7, as claimed: in a grid of one colour every row is one run of the     *)
(* grid's width, main writes `height` elements, and each of them carries   *)
(* an inline width and either a class or an inline background.             *)
C7_UniformAlwaysWidth ==
    (Constructed /\ Uniform(matrix)) =>
        /\ UniformShape
        /\ \A i \in Elements : Widths(fout[i].attrs) # {}

(* C7, amended: ... each of them carries either a class or an inline       *)
(* background, and carries an inline width, of the grid's width, if and    *)
(* only if the grid is wider than 1.                                       *)
C7_UniformWidthIfWide ==
    (Constructed /\ Uniform(matrix)) =>
        /\ UniformShape
        /\ \A i \in Elements :
               Widths(fout[i].attrs) =
                   IF Len(matrix[1]) > 1 THEN {ExpectedPx(Len(matrix[1]))} ELSE {}

\* main has returned on a grid of one colour two wide and two high
C7_Witness ==
    /\ Constructed
    /\ Uniform(matrix)
    /\ Len(matrix) = 2
    /\ Len(matrix[1]) = 2
    /\ Bodies # {}

\* what html writes, in the order claimed
HtmlExpected ==
    LET items == ComputeClasses(pixel_matrix)
        cells == Flatten(pixel_matrix)
    IN  <<DocOpen, StyleOpen, WidthRule(Len(matrix[1])), BaseRule>>
        \o [k \in 1..Len(items) |-> ClassRule(items[k])]
        \o <<StyleClose, BodyOpen, POpen>>
        \o [k \in 1..Len(cells) |-> Element(cellattr(cells[k], items))]
        \o <<PClose, BodyClose, DocClose>>

DocStarts == {i \in 1..Len(fout) : fout[i] = DocOpen}

\* the html call that wrote the document open at i is still running
HtmlRunning(i) ==
    /\ caller = "html"
    /\ pc \notin {"idle", "raised"}
    /\ \A j \in DocStarts : j <= i

C8_Order ==
    (Constructed /\ IsRectangular(matrix)) =>
        \A i \in DocStarts :
            LET last == IF i + Len(HtmlExpected) - 1 < Len(fout)
                        THEN i + Len(HtmlExpected) - 1 ELSE Len(fout)
            IN  /\ IsPrefix(SubSeq(fout, i, last), HtmlExpected)
                /\ ~HtmlRunning(i) => SubSeq(fout, i, last) = HtmlExpected

(* C8: html only appends to the sink, and on a valid grid it writes        *)
(* document open, style-block open, the container width rule, the base     *)
(* rule, one rule per colour class, style-block close, body-block open,    *)
(* container open, one element per run in row-major order, container       *)
(* close, body-block close, document close, in this order.                 *)
C8_HtmlOrder == [](C8_Order) /\ [][IsPrefix(fout, fout')]_vars

\* html has returned after writing two class rules
C8_Witness ==
    /\ IsRectangular(matrix)
    /\ pc = "idle"
    /\ caller = "html"
    /\ fout[Len(fout)] = DocClose
    /\ Len(cache.items) = 2

C9_Classes ==
    (Constructed /\ IsRectangular(matrix)) =>
        /\ \A i, j \in 1..Len(cache.items) : i # j =>
               /\ cache.items[i][1] # cache.items[j][1]
               /\ cache.items[i][2] # cache.items[j][2]
        /\ \A i \in Elements :
               LET attrs == fout[i].attrs
                   color == RunOf(i)[2]
               IN  /\ Cardinality(ClassesOf(attrs)) + Cardinality(Backgrounds(attrs)) = 1
                   /\ Backgrounds(attrs) \subseteq {ExpectedHex(color)}
                   /\ \A w \in {w \in StyleStarts : ~InProgress(w)} :
                          \A label \in ClassesOf(attrs) :
                              /\ Cardinality({k \in RulesOf(w) : fout[k].cls = label}) = 1
                              /\ \A k \in RulesOf(w) :
                                     fout[k].cls = label =>
                                         fout[k].background = ExpectedHex(color)

(* C9: on a valid grid, in any order and number of styles, main and html   *)
(* calls, the colour class map is computed once and never changes, it maps *)
(* distinct colours to distinct labels, every class an element refers to   *)
(* has exactly one rule in every style fragment, and the element's         *)
(* background, by that rule or inline, is the colour of its run.           *)
C9_ClassMap == [](C9_Classes) /\ [][cache.set => cache' = cache]_vars

\* two calls have returned, the map has two colours, and an element refers
\* to a class of a style fragment
C9_Witness ==
    /\ IsRectangular(matrix)
    /\ pc = "idle"
    /\ calls = 2
    /\ Len(cache.items) = 2
    /\ StyleStarts # {}
    /\ \E i \in Elements : ClassesOf(fout[i].attrs) # {}

(* C10: a colour is a key of color_classes if and only if at least two     *)
(* runs of the compressed grid have it; the image of two (255,0,0) pixels  *)
(* in one row gives an empty map and one element with inline background    *)
(* and width 2; a grid in which no colour has two runs gives an empty map  *)
(* and inline backgrounds only.                                            *)
C10_KeysAreRepeatedRuns ==
    (cache.set /\ NonEmptyRows(matrix)) =>
        /\ \A col \in Colors : InDict(cache.items, col) <=> RunCount(col) >= 2
        /\ (matrix = <<<<Red, Red>>>>) =>
               /\ cache.items = <<>>
               /\ \A jk \in Bodies : jk[2] - jk[1] = 2
               /\ \A i \in Elements :
                      fout[i].attrs =
                          <<[name |-> "style",
                             styles |-> <<[prop |-> "background", val |-> "#ff0000"],
                                          [prop |-> "width", val |-> "2px"]>>]>>
        /\ (\A col \in Colors : RunCount(col) <= 1) =>
               /\ cache.items = <<>>
               /\ \A i \in Elements :
                      /\ ~HasAttr(fout[i].attrs, "class")
                      /\ Backgrounds(fout[i].attrs) = {ExpectedHex(RunOf(i)[2])}

\* main has returned on the image of two (255,0,0) pixels in one row
C10_Witness ==
    /\ matrix = <<<<Red, Red>>>>
    /\ cache.set
    /\ Bodies # {}

====
